---- MODULE Spec2Model ----
(***************************************************************************)
(* Model of pace/pki/keygen.py (KeyGen): key derivation (_generate_key),   *)
(* initialize_users, and the attribute revocation protocol revoke /        *)
(* revoke_all_attrs running against the key store and the two              *)
(* attribute/user maps.                                                    *)
(*                                                                         *)
(* Every collaborator call of revoke is one atomic step; a collaborator    *)
(* call may also raise, which ends the call with the exception.            *)
(*                                                                         *)
(* Spec            one caller, revoke and revoke_all_attrs one at a time   *)
(* SpecConc        two callers, one revoke each, steps interleaved         *)
(* SpecInitUsers   one initialize_users on an empty key store              *)
(* SpecGenerateKey one or two _generate_key calls, block by block          *)
(***************************************************************************)
EXTENDS Integers, FiniteSets, Sequences, Bags, TLC

\* ------------------------------------------------------------------------
\* Universe of the model
\* ------------------------------------------------------------------------
Users == {"u1", "u2", "u3"}
Attrs == {"admin", "read"}
Metas == {"enc", "mac"}
Procs == {"p1", "p2"}

\* number of top-level calls (revoke or revoke_all_attrs) in one behaviour
MaxCalls == 2

\* number of collaborator calls that raise in one behaviour
MaxErrors == 1

\* the caller of the serialized specification (one logical caller at a time)
Caller == "p1"

\* ------------------------------------------------------------------------
\* KeyGen._generate_key
\* ------------------------------------------------------------------------
\* output length of SHA-1 in bytes (h.digest_size)
DigestSize == 20

\* line 72 with integer division: keylen/h.digest_size
NumBlocks_Floor(keylen) == keylen \div DigestSize

\* int(math.ceil((keylen*1.0)/h.digest_size))
NumBlocks(keylen) == (keylen + DigestSize - 1) \div DigestSize

\* strings are sequences of characters
DigitChars == <<"0", "1", "2", "3", "4", "5", "6", "7", "8", "9">>

\* the decimal digits of a natural number
RECURSIVE Decimal(_)
Decimal(n) ==
    IF n < Len(DigitChars)
    THEN <<DigitChars[n + 1]>>
    ELSE Decimal(n \div Len(DigitChars))
             \o <<DigitChars[(n % Len(DigitChars)) + 1]>>

\* str(n) of an integer
Str(n) == IF n < 0 THEN <<"-">> \o Decimal(0 - n) ELSE Decimal(n)

\* '|'.join(fields)
RECURSIVE Join(_)
Join(fields) ==
    IF Len(fields) = 1 THEN fields[1]
    ELSE fields[1] \o <<"|">> \o Join(Tail(fields))

\* line 76 with the key length left out of the info string
KeyInfoStr_NoKeylen(a, vers, metadata, keylen) ==
    Join(<<a, Str(vers), metadata>>)

\* '|'.join([attr, str(vers), metadata, str(keylen)])
KeyInfoStr(a, vers, metadata, keylen) ==
    Join(<<a, Str(vers), metadata, Str(keylen)>>)

\* the ValueError of _generate_key
GenerateKeyRaises(keylen) == keylen < 0

\* the key returned for (attr, vers, metadata, keylen), as the revocation
\* protocol sees it: the HMAC chain over key_info, num_blocks blocks long,
\* cut to keylen bytes; an attribute or metadata name stands for a run of
\* characters without '|'
GenerateKey(a, vers, metadata, keylen) ==
    [info   |-> KeyInfoStr(<<a>>, vers, <<metadata>>, keylen),
     blocks |-> NumBlocks(keylen),
     len    |-> keylen]

\* number of values of one byte
ByteValues == 256

\* bytes(bytearray(struct.pack('>i', i+1)))[-1]: the low byte of i + 1
BlockNum(i) == (i + 1) % ByteValues

\* the byte of a character
Ord(c) ==
    CASE c = "|" -> 124
      [] c = "-" -> 45
      [] c = "a" -> 97
      [] c = "m" -> 109
      [] OTHER -> 47 + (CHOOSE k \in 1..Len(DigitChars) : DigitChars[k] = c)

\* a byte string: written bytes are <<"byte", value>>, the bytes of a
\* digest are <<"digest", d, j>>, byte j of digest d
ByteString(str) == [k \in 1..Len(str) |-> <<"byte", Ord(str[k])>>]

\* block + key_info + block_num
HmacMessage(block, key_info, block_num) ==
    block \o ByteString(key_info) \o << <<"byte", block_num>> >>

\* HMAC-SHA1 under the master secret key, as a table of the messages
\* authenticated so far: a message met again has the digest it had, a new
\* message a digest no other message has
HmacTable(table, msg) ==
    IF \E k \in 1..Len(table) : table[k] = msg THEN table
    ELSE Append(table, msg)

\* h.digest(): the place of the message in the table, DigestSize bytes
HmacDigest(table, msg) ==
    LET d == CHOOSE k \in 1..Len(HmacTable(table, msg)) :
                 HmacTable(table, msg)[k] = msg
    IN  [j \in 1..DigestSize |-> <<"digest", d, j>>]

\* key[:keylen] for keylen >= 0
Slice(key, keylen) ==
    SubSeq(key, 1, IF keylen < Len(key) THEN keylen ELSE Len(key))

\* ------------------------------------------------------------------------
\* Collaborators: wrap primitive, key store, attribute/user maps
\* ------------------------------------------------------------------------
\* user_pks[user]
UserPk(user) == <<"pk", user>>

\* utils.wrap_key(sk, RSA_pk)
WrapKey(sk, RSA_pk) == [sk |-> sk, pk |-> RSA_pk]

\* KeyInfo(attr, vers, metadata, keywrap, keylen)
KeyInfo(a, vers, metadata, keywrap, keylen) ==
    [attr |-> a, vers |-> vers, metadata |-> metadata,
     keywrap |-> keywrap, keylen |-> keylen]

\* the records of one user for one attribute
UserAttrRecords(ks, user, a) ==
    {r \in ks : r.user = user /\ r.info.attr = a}

\* keystore.get_metadatas(userid, attr)
GetMetadatas(ks, user, a) ==
    {r.info.metadata : r \in UserAttrRecords(ks, user, a)}

\* the versions stored for (user, attr, metadata)
StoredVersions(ks, user, metadata, a) ==
    {r.info.vers : r \in {x \in UserAttrRecords(ks, user, a) :
                              x.info.metadata = metadata}}

\* keystore.retrieve_latest_version(userid, metadata, attr)
RetrieveLatestVersion(ks, user, metadata, a) ==
    (CHOOSE r \in UserAttrRecords(ks, user, a) :
        /\ r.info.metadata = metadata
        /\ \A v \in StoredVersions(ks, user, metadata, a) : v <= r.info.vers).info

\* keystore.remove_revoked_keys(userid, metadata, attr)
RemoveRevokedKeys(ks, user, metadata, a) ==
    {r \in ks : ~(r.user = user /\ r.info.attr = a
                  /\ r.info.metadata = metadata)}

\* keystore.insert(userid, keyinfo): the store is keyed by
\* (user, attr, metadata, vers)
Insert(ks, user, info) ==
    {r \in ks : ~(r.user = user /\ r.info.attr = info.attr
                  /\ r.info.metadata = info.metadata
                  /\ r.info.vers = info.vers)}
    \cup {[user |-> user, info |-> info]}

\* keystore.batch_insert(userid, keywraps): every record of the list is
\* stored, in one step
RECURSIVE BatchInsert(_, _, _)
BatchInsert(ks, user, infos) ==
    IF infos = <<>> THEN ks
    ELSE BatchInsert(Insert(ks, user, Head(infos)), user, Tail(infos))

\* attr_user_map.users_by_attribute(attr): a snapshot
UsersByAttribute(aum, a) == aum[a]

\* attr_user_map.delete_user(attr, userid)
DeleteUser(aum, a, user) == [aum EXCEPT ![a] = @ \ {user}]

\* user_attr_map.attributes_by_user(userid): a snapshot
AttributesByUser(uam, user) == uam[user]

\* user_attr_map.delete_attr(userid, attr)
DeleteAttr(uam, user, a) == [uam EXCEPT ![user] = @ \ {a}]

\* ------------------------------------------------------------------------
\* State
\* ------------------------------------------------------------------------
VARIABLES
    keystore,        \* set of [user, info]: the key store
    attr_user_map,   \* attribute -> set of users
    user_attr_map,   \* user -> set of attributes
    pc,              \* position of each caller
    op,              \* "revoke" or "revoke_all_attrs": the top-level call
    userid, attr, metas_keylens,    \* arguments of revoke
    cur_users,       \* local of revoke (line 221)
    metas,           \* metadatas still to visit in the loop of line 234
    new_keys, new_vers, new_keylen, \* locals of revoke
    users_iter,      \* users still to visit in the loop of line 247
    user,            \* loop variable of line 247
    metas_iter,      \* metadatas still to visit in the loop of line 248
    attrs,           \* attributes still to visit in revoke_all_attrs
    err,             \* the exception that ended the call, "" if none
    pre,             \* history: stores and maps when revoke was entered,
                     \* whether the call repeats the one that just returned,
                     \* whether it retries the one that just raised in the
                     \* re-distribution loop, and the key store that call met,
                     \* whether no other caller was inside a call on the
                     \* same attribute
    pre_all,         \* history: the same when revoke_all_attrs was entered
    inserted,        \* history: bag of the records this revoke inserted
    ncalls,          \* history: number of top-level calls so far
    nerrors,         \* history: number of collaborator errors so far
    iu,              \* frame of initialize_users: position, the argument
                     \* users, users still to visit, and the locals userid,
                     \* info (descriptors still to visit), keywraps
    batches,         \* history: the batch_insert calls made, in order
    gk,              \* frame of _generate_key: position, arguments, locals
    hmac_table,      \* HMAC under the master secret key: the messages
                     \* authenticated so far, each one's place its digest
    gk_hist          \* history: the messages the running _generate_key
                     \* authenticated, and the calls that ended before it

locals == <<op, userid, attr, metas_keylens, cur_users, metas, new_keys,
            new_vers, new_keylen, users_iter, user, metas_iter, attrs>>
shared == <<keystore, attr_user_map, user_attr_map>>
history == <<pre, pre_all, inserted, ncalls, nerrors>>
init_users_vars == <<iu, batches>>
generate_key_vars == <<gk, hmac_table, gk_hist>>
vars == <<shared, pc, locals, err, history, init_users_vars,
          generate_key_vars>>

\* ------------------------------------------------------------------------
\* Initial states: what initialize_users and the grants leave behind
\* ------------------------------------------------------------------------
\* current version of the key of (attr, metadata) at start
InitVers(a, m) == IF a = "admin" /\ m = "mac" THEN 2 ELSE 1

\* key length of the keys of one metadata at start
InitKeylen(m) == IF m = "enc" THEN 16 ELSE 32

\* one descriptor (attr, vers, metadata, keylen) of initialize_users, wrapped
InitRecord(u, a, m) ==
    [user |-> u,
     info |-> KeyInfo(a, InitVers(a, m), m,
                      WrapKey(GenerateKey(a, InitVers(a, m), m, InitKeylen(m)),
                              UserPk(u)),
                      InitKeylen(m))]

\* what the users hold at start, for each attribute a set of metadatas:
\* u1 holds "admin" under both metadatas and "read", u2 the same, u3 holds
\* "admin" under "enc" alone
Grant ==
    [u \in Users |-> [a \in Attrs |->
        IF a = "admin" THEN (IF u = "u3" THEN {"enc"} ELSE Metas)
        ELSE (IF u = "u3" THEN {} ELSE {"enc"})]]

\* the overrides a caller may pass as metas_keylens: a new length for "enc"
\* and none for "mac", or an invalid length for "mac" and none for "enc"
KeylenChoices ==
    { [m \in {"enc"} |-> 24], [m \in {"mac"} |-> 0 - 1] }

\* key store and maps at start
InitKeystore ==
    {InitRecord(t[1], t[2], t[3]) :
        t \in {x \in Users \X Attrs \X Metas : x[3] \in Grant[x[1]][x[2]]}}
InitAttrUserMap == [a \in Attrs |-> {u \in Users : Grant[u][a] # {}}]
InitUserAttrMap == [u \in Users |-> {a \in Attrs : Grant[u][a] # {}}]

\* no initialize_users is running
InitUsersIdle ==
    /\ iu = [pc |-> "idle", users |-> <<>>, left |-> {}, userid |-> "u1",
             info |-> <<>>, keywraps |-> <<>>, err |-> ""]
    /\ batches = <<>>

\* no _generate_key is running, and no message was authenticated yet
GenerateKeyIdle ==
    /\ gk = [pc |-> "idle", attr |-> <<>>, vers |-> 0, metadata |-> <<>>,
             keylen |-> 0, num_blocks |-> 0, key_info |-> <<>>, key |-> <<>>,
             block |-> <<>>, i |-> 0]
    /\ hmac_table = <<>>
    /\ gk_hist = [inputs |-> <<>>, calls |-> <<>>]

\* no caller is inside revoke or revoke_all_attrs
CallersIdle ==
    /\ pc = [p \in Procs |-> "idle"]
    /\ op = [p \in Procs |-> "revoke"]
    /\ userid = [p \in Procs |-> "u1"]
    /\ attr = [p \in Procs |-> "admin"]
    /\ metas_keylens = [p \in Procs |-> <<>>]
    /\ cur_users = [p \in Procs |-> {}]
    /\ metas = [p \in Procs |-> {}]
    /\ new_keys = [p \in Procs |-> <<>>]
    /\ new_vers = [p \in Procs |-> 0]
    /\ new_keylen = [p \in Procs |-> 0]
    /\ users_iter = [p \in Procs |-> {}]
    /\ user = [p \in Procs |-> "u1"]
    /\ metas_iter = [p \in Procs |-> {}]
    /\ attrs = [p \in Procs |-> {}]
    /\ err = [p \in Procs |-> ""]
    /\ pre = [p \in Procs |-> [ks |-> {}, aum |-> [a \in Attrs |-> {}],
                               uam |-> [u \in Users |-> {}], repeat |-> FALSE,
                               retry |-> FALSE, first |-> {},
                               alone |-> TRUE]]
    /\ pre_all = [p \in Procs |-> [ks |-> {}, aum |-> [a \in Attrs |-> {}],
                                   uam |-> [u \in Users |-> {}]]]
    /\ inserted = [p \in Procs |-> EmptyBag]
    /\ ncalls = 0
    /\ nerrors = 0

Init ==
    /\ keystore = InitKeystore
    /\ attr_user_map = InitAttrUserMap
    /\ user_attr_map = InitUserAttrMap
    /\ CallersIdle
    /\ InitUsersIdle
    /\ GenerateKeyIdle

\* ------------------------------------------------------------------------
\* KeyGen.revoke, one step per collaborator call
\* ------------------------------------------------------------------------
\* line 222 without the membership check: every call goes on
Held_Always(cu, u) == TRUE

\* line 222: the revoked user has the attribute
Held(cu, u) == u \in cu

\* line 226 with the attribute left out of the deletion: the revoked user
\* leaves the users of every attribute
DeleteFromAttrUserMap_AnyAttr(aum, a, u) ==
    [b \in DOMAIN aum |-> aum[b] \ {u}]

\* line 226 with the deletion forgotten
DeleteFromAttrUserMap_Forgotten(aum, a, u) == aum

\* line 226: the revoked user leaves the attribute's users
DeleteFromAttrUserMap(aum, a, u) == DeleteUser(aum, a, u)

\* line 243 with the purge forgotten
PurgeRevoked_Forgotten(ks, u, meta, a) == ks

\* line 243: the revoked user's keys of one metadata are purged
PurgeRevoked(ks, u, meta, a) == RemoveRevokedKeys(ks, u, meta, a)

\* line 236
NewVers(cur_info) == cur_info.vers + 1

\* lines 237-240
NewKeylen(meta, mk, cur_info) ==
    IF meta \in DOMAIN mk THEN mk[meta] ELSE cur_info.keylen

\* line 246: cur_users.remove(userid)
OtherUsers(cu, u) == cu \ {u}

\* line 248 looping over the minted keys instead of the user's metadatas
OtherUserMetas_AllMinted(ks, usr, a, nk) == DOMAIN nk

\* line 248: the metadatas visited for one remaining user
OtherUserMetas(ks, usr, a, nk) == GetMetadatas(ks, usr, a)

\* line 249
Minted(meta, nk) == meta \in DOMAIN nk

\* the frame of revoke is dropped when the call ends
DropFrame(p) ==
    /\ cur_users' = [cur_users EXCEPT ![p] = {}]
    /\ metas' = [metas EXCEPT ![p] = {}]
    /\ new_keys' = [new_keys EXCEPT ![p] = <<>>]
    /\ new_vers' = [new_vers EXCEPT ![p] = 0]
    /\ new_keylen' = [new_keylen EXCEPT ![p] = 0]
    /\ users_iter' = [users_iter EXCEPT ![p] = {}]
    /\ user' = [user EXCEPT ![p] = "u1"]
    /\ metas_iter' = [metas_iter EXCEPT ![p] = {}]

\* the caller is between top-level calls
Resting(p) ==
    \/ pc[p] \in {"idle", "raised", "all_returned"}
    \/ pc[p] = "returned" /\ op[p] = "revoke"

\* no other caller is inside a call on the pair (u, a)
PairFree(p, u, a) ==
    \A q \in Procs \ {p} : Resting(q) \/ userid[q] # u \/ attr[q] # a

\* no other caller is inside a call on attribute a
AttrFree(p, a) ==
    \A q \in Procs \ {p} : Resting(q) \/ attr[q] # a

\* revoke(u, a, ..., mk) is called again, with the same arguments, right
\* after the same call was ended by an error of the re-distribution loop
Retries(p, u, a, mk) ==
    /\ pc[p] = "raised"
    /\ err[p] = "collaborator, re-distribution"
    /\ op[p] = "revoke"
    /\ userid[p] = u
    /\ attr[p] = a
    /\ metas_keylens[p] = mk

\* lines 220-223: entry of revoke(u, a, ..., mk) and the membership check
RevokeEnter(p, u, a, mk) ==
    LET cu == UsersByAttribute(attr_user_map, a) IN
    /\ userid' = [userid EXCEPT ![p] = u]
    /\ attr' = [attr EXCEPT ![p] = a]
    /\ metas_keylens' = [metas_keylens EXCEPT ![p] = mk]
    /\ pre' = [pre EXCEPT ![p] = [ks |-> keystore, aum |-> attr_user_map,
                                  uam |-> user_attr_map,
                                  repeat |-> /\ pc[p] = "returned"
                                             /\ userid[p] = u
                                             /\ attr[p] = a,
                                  retry |-> Retries(p, u, a, mk),
                                  first |-> IF Retries(p, u, a, mk)
                                            THEN pre[p].ks ELSE {},
                                  alone |-> AttrFree(p, a)]]
    /\ inserted' = [inserted EXCEPT ![p] = EmptyBag]
    /\ err' = [err EXCEPT ![p] = ""]
    /\ metas' = [metas EXCEPT ![p] = {}]
    /\ new_keys' = [new_keys EXCEPT ![p] = <<>>]
    /\ new_vers' = [new_vers EXCEPT ![p] = 0]
    /\ new_keylen' = [new_keylen EXCEPT ![p] = 0]
    /\ users_iter' = [users_iter EXCEPT ![p] = {}]
    /\ user' = [user EXCEPT ![p] = "u1"]
    /\ metas_iter' = [metas_iter EXCEPT ![p] = {}]
    /\ IF Held(cu, u)
       THEN /\ cur_users' = [cur_users EXCEPT ![p] = cu]
            /\ pc' = [pc EXCEPT ![p] = "delete_user"]
       ELSE /\ cur_users' = [cur_users EXCEPT ![p] = {}]
            /\ pc' = [pc EXCEPT ![p] = "returned"]
    /\ UNCHANGED <<shared, nerrors>>
    /\ UNCHANGED <<init_users_vars, generate_key_vars>>

\* a top-level call of revoke
Revoke(p, u, a, mk) ==
    /\ Resting(p)
    /\ ncalls < MaxCalls
    /\ ncalls' = ncalls + 1
    /\ op' = [op EXCEPT ![p] = "revoke"]
    /\ RevokeEnter(p, u, a, mk)
    /\ UNCHANGED <<attrs, pre_all>>

\* line 226
RevokeDeleteUser(p) ==
    /\ pc[p] = "delete_user"
    /\ attr_user_map' = DeleteFromAttrUserMap(attr_user_map, attr[p],
                                              userid[p])
    /\ pc' = [pc EXCEPT ![p] = "delete_attr"]
    /\ UNCHANGED <<keystore, user_attr_map, locals, err, history>>
    /\ UNCHANGED <<init_users_vars, generate_key_vars>>

\* line 227
RevokeDeleteAttr(p) ==
    /\ pc[p] = "delete_attr"
    /\ user_attr_map' = DeleteAttr(user_attr_map, userid[p], attr[p])
    /\ pc' = [pc EXCEPT ![p] = "get_metadatas"]
    /\ UNCHANGED <<keystore, attr_user_map, locals, err, history>>
    /\ UNCHANGED <<init_users_vars, generate_key_vars>>

\* lines 229-230
RevokeGetMetadatas(p) ==
    /\ pc[p] = "get_metadatas"
    /\ metas' = [metas EXCEPT ![p] = GetMetadatas(keystore, userid[p], attr[p])]
    /\ new_keys' = [new_keys EXCEPT ![p] = <<>>]
    /\ pc' = [pc EXCEPT ![p] = "rotate"]
    /\ UNCHANGED <<shared, op, userid, attr, metas_keylens, cur_users,
                   new_vers, new_keylen, users_iter, user, metas_iter, attrs,
                   err, history>>
    /\ UNCHANGED <<init_users_vars, generate_key_vars>>

\* lines 234-241: one iteration of the loop over the revoked user's
\* metadatas, up to the new key
RevokeRotate(p) ==
    /\ pc[p] = "rotate"
    /\ \E meta \in metas[p] :
        LET cur_info == RetrieveLatestVersion(keystore, userid[p], meta, attr[p])
            nv == NewVers(cur_info)
            nl == NewKeylen(meta, metas_keylens[p], cur_info)
        IN  IF GenerateKeyRaises(nl)
            THEN /\ pc' = [pc EXCEPT ![p] = "raised"]
                 /\ err' = [err EXCEPT ![p] = "ValueError"]
                 /\ DropFrame(p)
                 /\ UNCHANGED keystore
            ELSE /\ new_vers' = [new_vers EXCEPT ![p] = nv]
                 /\ new_keylen' = [new_keylen EXCEPT ![p] = nl]
                 /\ new_keys' = [new_keys EXCEPT ![p] =
                        @ @@ (meta :> GenerateKey(attr[p], nv, meta, nl))]
                 /\ pc' = [pc EXCEPT ![p] = "purge"]
                 /\ UNCHANGED <<keystore, err, cur_users, metas, users_iter,
                                user, metas_iter>>
    /\ UNCHANGED <<attr_user_map, user_attr_map, op, userid, attr,
                   metas_keylens, attrs, history>>
    /\ UNCHANGED <<init_users_vars, generate_key_vars>>

\* line 243, for the metadata of this iteration: the one still to visit
\* whose new key is made
RevokePurge(p) ==
    /\ pc[p] = "purge"
    /\ LET meta == CHOOSE m \in metas[p] : m \in DOMAIN new_keys[p] IN
       /\ keystore' = PurgeRevoked(keystore, userid[p], meta, attr[p])
       /\ metas' = [metas EXCEPT ![p] = @ \ {meta}]
    /\ pc' = [pc EXCEPT ![p] = "rotate"]
    /\ UNCHANGED <<attr_user_map, user_attr_map, op, userid, attr,
                   metas_keylens, cur_users, new_keys, new_vers, new_keylen,
                   users_iter, user, metas_iter, attrs, err, history>>
    /\ UNCHANGED <<init_users_vars, generate_key_vars>>

\* line 246, after the last iteration of the loop of line 234
RevokeRemoveSelf(p) ==
    /\ pc[p] = "rotate"
    /\ metas[p] = {}
    /\ cur_users' = [cur_users EXCEPT ![p] = OtherUsers(@, userid[p])]
    /\ users_iter' = [users_iter EXCEPT ![p] =
                         OtherUsers(cur_users[p], userid[p])]
    /\ pc' = [pc EXCEPT ![p] = "next_user"]
    /\ UNCHANGED <<shared, op, userid, attr, metas_keylens, metas, new_keys,
                   new_vers, new_keylen, user, metas_iter, attrs, err,
                   history>>
    /\ UNCHANGED <<init_users_vars, generate_key_vars>>

\* lines 247-248: the next remaining user and that user's metadatas
RevokeNextUser(p) ==
    /\ pc[p] = "next_user"
    /\ \E usr \in users_iter[p] :
        LET ms == OtherUserMetas(keystore, usr, attr[p], new_keys[p]) IN
        /\ user' = [user EXCEPT ![p] = usr]
        /\ users_iter' = [users_iter EXCEPT ![p] = @ \ {usr}]
        /\ metas_iter' = [metas_iter EXCEPT ![p] = ms]
        /\ pc' = [pc EXCEPT ![p] = IF ms = {} THEN "next_user" ELSE "insert"]
    /\ UNCHANGED <<shared, op, userid, attr, metas_keylens, cur_users, metas,
                   new_keys, new_vers, new_keylen, attrs, err, history>>
    /\ UNCHANGED <<init_users_vars, generate_key_vars>>

\* lines 248-254: one iteration of the loop over the remaining user's
\* metadatas
RevokeInsert(p) ==
    /\ pc[p] = "insert"
    /\ \E meta \in metas_iter[p] :
        /\ IF Minted(meta, new_keys[p])
           THEN LET sk == new_keys[p][meta]
                    RSA_pk == UserPk(user[p])
                    keywrap == WrapKey(sk, RSA_pk)
                    info == KeyInfo(attr[p], new_vers[p], meta, keywrap,
                                    new_keylen[p])
                IN  /\ keystore' = Insert(keystore, user[p], info)
                    /\ inserted' = [inserted EXCEPT ![p] =
                          @ (+) SetToBag({[user |-> user[p], info |-> info]})]
           ELSE UNCHANGED <<keystore, inserted>>
        /\ metas_iter' = [metas_iter EXCEPT ![p] = @ \ {meta}]
        /\ pc' = [pc EXCEPT ![p] =
                     IF metas_iter[p] = {meta} THEN "next_user" ELSE "insert"]
    /\ UNCHANGED <<attr_user_map, user_attr_map, op, userid, attr,
                   metas_keylens, cur_users, metas, new_keys, new_vers,
                   new_keylen, users_iter, user, attrs, err, pre, pre_all,
                   ncalls, nerrors>>
    /\ UNCHANGED <<init_users_vars, generate_key_vars>>

\* the loop of line 247 is over: revoke returns
RevokeReturn(p) ==
    /\ pc[p] = "next_user"
    /\ users_iter[p] = {}
    /\ pc' = [pc EXCEPT ![p] = "returned"]
    /\ DropFrame(p)
    /\ UNCHANGED <<shared, op, userid, attr, metas_keylens, attrs, err, pre,
                   pre_all, inserted, ncalls, nerrors>>
    /\ UNCHANGED <<init_users_vars, generate_key_vars>>

\* a collaborator call is pending
AtCollaboratorCall(p) ==
    \/ pc[p] \in {"delete_user", "delete_attr", "get_metadatas", "purge",
                 "insert"}
    \/ pc[p] = "rotate" /\ metas[p] # {}
    \/ pc[p] = "next_user" /\ users_iter[p] # {}

\* the exception of a collaborator call: raised in the loop of line 247
\* (get_metadatas, user_pks, wrap_key, insert) or before it
CollaboratorException(p) ==
    IF pc[p] \in {"next_user", "insert"}
    THEN "collaborator, re-distribution"
    ELSE "collaborator"

\* a collaborator call raises and an exception handler puts key store and
\* maps back to what they were at entry
CollaboratorError_Rollback(p) ==
    /\ AtCollaboratorCall(p)
    /\ nerrors < MaxErrors
    /\ nerrors' = nerrors + 1
    /\ pc' = [pc EXCEPT ![p] = "raised"]
    /\ err' = [err EXCEPT ![p] = CollaboratorException(p)]
    /\ DropFrame(p)
    /\ keystore' = pre[p].ks
    /\ attr_user_map' = pre[p].aum
    /\ user_attr_map' = pre[p].uam
    /\ UNCHANGED <<op, userid, attr, metas_keylens, attrs, pre, pre_all,
                   inserted, ncalls>>
    /\ UNCHANGED <<init_users_vars, generate_key_vars>>

\* a collaborator call (index, key store, public keys, wrap) raises: the
\* exception leaves revoke, and revoke_all_attrs, at once
CollaboratorError(p) ==
    /\ AtCollaboratorCall(p)
    /\ nerrors < MaxErrors
    /\ nerrors' = nerrors + 1
    /\ pc' = [pc EXCEPT ![p] = "raised"]
    /\ err' = [err EXCEPT ![p] = CollaboratorException(p)]
    /\ DropFrame(p)
    /\ UNCHANGED <<shared, op, userid, attr, metas_keylens, attrs, pre, pre_all,
                   inserted, ncalls>>
    /\ UNCHANGED <<init_users_vars, generate_key_vars>>

\* ------------------------------------------------------------------------
\* KeyGen.revoke_all_attrs
\* ------------------------------------------------------------------------
\* line 281: entry of revoke_all_attrs(u, ..., mk)
RevokeAllAttrs(p, u, mk) ==
    /\ Resting(p)
    /\ ncalls < MaxCalls
    /\ ncalls' = ncalls + 1
    /\ op' = [op EXCEPT ![p] = "revoke_all_attrs"]
    /\ userid' = [userid EXCEPT ![p] = u]
    /\ metas_keylens' = [metas_keylens EXCEPT ![p] = mk]
    /\ attrs' = [attrs EXCEPT ![p] = AttributesByUser(user_attr_map, u)]
    /\ pre_all' = [pre_all EXCEPT ![p] = [ks |-> keystore,
                                          aum |-> attr_user_map,
                                          uam |-> user_attr_map]]
    /\ err' = [err EXCEPT ![p] = ""]
    /\ pc' = [pc EXCEPT ![p] = "all_loop"]
    /\ pre' = [pre EXCEPT ![p].repeat = FALSE, ![p].retry = FALSE,
                           ![p].first = {}]
    /\ inserted' = [inserted EXCEPT ![p] = EmptyBag]
    /\ UNCHANGED <<shared, attr, cur_users, metas, new_keys, new_vers,
                   new_keylen, users_iter, user, metas_iter, nerrors>>
    /\ UNCHANGED <<init_users_vars, generate_key_vars>>

\* revoke_all_attrs is between two calls of revoke
InAllLoop(p) ==
    /\ op[p] = "revoke_all_attrs"
    /\ pc[p] \in {"all_loop", "returned"}

\* lines 282-284: the next attribute of the snapshot is revoked
RevokeAllNext(p) ==
    /\ InAllLoop(p)
    /\ \E a \in attrs[p] :
        /\ attrs' = [attrs EXCEPT ![p] = @ \ {a}]
        /\ RevokeEnter(p, userid[p], a, metas_keylens[p])
    /\ UNCHANGED <<op, pre_all, ncalls>>

\* the loop of line 282 is over: revoke_all_attrs returns
RevokeAllReturn(p) ==
    /\ InAllLoop(p)
    /\ attrs[p] = {}
    /\ pc' = [pc EXCEPT ![p] = "all_returned"]
    /\ UNCHANGED <<shared, locals, err, history>>
    /\ UNCHANGED <<init_users_vars, generate_key_vars>>

\* ------------------------------------------------------------------------
\* Specification: one logical caller, calls one after the other
\* ------------------------------------------------------------------------
Step(p) ==
    \/ RevokeDeleteUser(p)
    \/ RevokeDeleteAttr(p)
    \/ RevokeGetMetadatas(p)
    \/ RevokeRotate(p)
    \/ RevokePurge(p)
    \/ RevokeRemoveSelf(p)
    \/ RevokeNextUser(p)
    \/ RevokeInsert(p)
    \/ RevokeReturn(p)
    \/ RevokeAllNext(p)
    \/ RevokeAllReturn(p)
    \/ CollaboratorError(p)

Next ==
    \/ \E u \in Users, a \in Attrs, mk \in KeylenChoices :
          Revoke(Caller, u, a, mk)
    \/ \E u \in Users, mk \in KeylenChoices : RevokeAllAttrs(Caller, u, mk)
    \/ Step(Caller)

Spec == Init /\ [][Next]_vars

\* ------------------------------------------------------------------------
\* Specification: two callers, one revoke each, their collaborator calls
\* interleaved; calls on the same (user, attribute) pair exclude each other
\* ------------------------------------------------------------------------
\* the users each caller may revoke
ConcUsers == [p \in Procs |-> IF p = "p1" THEN {"u1"} ELSE {"u1", "u2"}]

\* a caller's only call: revoke(u, a, ..., mk), once no other caller is
\* inside a call on (u, a)
ConcRevoke(p, u, a, mk) ==
    /\ pc[p] = "idle"
    /\ PairFree(p, u, a)
    /\ Revoke(p, u, a, mk)

ConcStep(p) ==
    \/ RevokeDeleteUser(p)
    \/ RevokeDeleteAttr(p)
    \/ RevokeGetMetadatas(p)
    \/ RevokeRotate(p)
    \/ RevokePurge(p)
    \/ RevokeRemoveSelf(p)
    \/ RevokeNextUser(p)
    \/ RevokeInsert(p)
    \/ RevokeReturn(p)

ConcNext ==
    \/ \E p \in Procs, a \in Attrs, mk \in KeylenChoices :
          \E u \in ConcUsers[p] : ConcRevoke(p, u, a, mk)
    \/ \E p \in Procs : ConcStep(p)

SpecConc == Init /\ [][ConcNext]_vars

\* ------------------------------------------------------------------------
\* initialize_users (lines 87-108)
\* ------------------------------------------------------------------------
\* one (attr, vers, metadata, keylen) tuple of an info list
Descriptor(a, vers, metadata, keylen) ==
    [attr |-> a, vers |-> vers, metadata |-> metadata, keylen |-> keylen]

\* the info lists a user may come with: none, one or several descriptors,
\* and a list whose second descriptor has an invalid key length
InfoChoices ==
    { <<>>,
      <<Descriptor("admin", 1, "enc", 16)>>,
      <<Descriptor("admin", 1, "enc", 16), Descriptor("admin", 2, "mac", 32),
        Descriptor("read", 1, "enc", 16)>>,
      <<Descriptor("admin", 1, "enc", 16), Descriptor("read", 1, "enc", 0 - 1)>> }

\* the dictionaries passed as users: user -> (RSA_pk, info)
UsersChoices ==
    {[u \in Users |-> [RSA_pk |-> UserPk(u), info |-> f[u]]] :
        f \in [Users -> InfoChoices]}

\* lines 105-107 with the record stored as soon as it is wrapped
KeystoreAfterWrap_InsertEach(ks, u, info) == Insert(ks, u, info)

\* lines 105-107: the wrapped key goes to the list keywraps, the key store
\* is not written
KeystoreAfterWrap(ks, u, info) == ks

\* initialize_users(users, keystore) is called
InitializeUsers(us) ==
    /\ iu.pc = "idle"
    /\ iu' = [iu EXCEPT !.pc = "next_user", !.users = us,
                        !.left = DOMAIN us]
    /\ UNCHANGED <<shared, pc, locals, err, history, batches,
                   generate_key_vars>>

\* lines 102-103: the loop takes the next user, in the dictionary's order
InitUsersNextUser ==
    /\ iu.pc = "next_user"
    /\ \E u \in iu.left :
          iu' = [iu EXCEPT !.pc = "derive", !.userid = u,
                           !.left = @ \ {u},
                           !.info = iu.users[u].info, !.keywraps = <<>>]
    /\ UNCHANGED <<shared, pc, locals, err, history, batches,
                   generate_key_vars>>

\* lines 104-107: one descriptor is derived, wrapped and appended, or
\* _generate_key raises ValueError
InitUsersDerive ==
    /\ iu.pc = "derive"
    /\ iu.info # <<>>
    /\ LET d == Head(iu.info) IN
       IF GenerateKeyRaises(d.keylen)
       THEN /\ iu' = [iu EXCEPT !.pc = "raised", !.err = "ValueError"]
            /\ UNCHANGED keystore
       ELSE LET sk == GenerateKey(d.attr, d.vers, d.metadata, d.keylen)
                keywrap == WrapKey(sk, iu.users[iu.userid].RSA_pk)
                info == KeyInfo(d.attr, d.vers, d.metadata, keywrap,
                                d.keylen)
            IN  /\ iu' = [iu EXCEPT !.info = Tail(@),
                                    !.keywraps = Append(@, info)]
                /\ keystore' = KeystoreAfterWrap(keystore, iu.userid, info)
    /\ UNCHANGED <<attr_user_map, user_attr_map, pc, locals, err, history,
                   batches, generate_key_vars>>

\* line 108: the user's list is stored with one batch_insert
InitUsersBatchInsert ==
    /\ iu.pc = "derive"
    /\ iu.info = <<>>
    /\ keystore' = BatchInsert(keystore, iu.userid, iu.keywraps)
    /\ batches' = Append(batches, [user |-> iu.userid,
                                   keywraps |-> iu.keywraps])
    /\ iu' = [iu EXCEPT !.pc = "next_user"]
    /\ UNCHANGED <<attr_user_map, user_attr_map, pc, locals, err, history,
                   generate_key_vars>>

\* the loop of line 102 is over: initialize_users returns
InitUsersReturn ==
    /\ iu.pc = "next_user"
    /\ iu.left = {}
    /\ iu' = [iu EXCEPT !.pc = "returned"]
    /\ UNCHANGED <<shared, pc, locals, err, history, batches,
                   generate_key_vars>>

\* wrap_key (line 106) or batch_insert (line 108) raises: the exception
\* leaves initialize_users; a batch_insert that raises stores nothing
InitUsersCollaboratorError ==
    /\ iu.pc = "derive"
    /\ iu' = [iu EXCEPT !.pc = "raised", !.err = "collaborator"]
    /\ UNCHANGED <<shared, pc, locals, err, history, batches,
                   generate_key_vars>>

\* an empty key store, and the maps as at the start of the other
\* specifications
InitUsersInit ==
    /\ keystore = {}
    /\ attr_user_map = InitAttrUserMap
    /\ user_attr_map = InitUserAttrMap
    /\ CallersIdle
    /\ InitUsersIdle
    /\ GenerateKeyIdle

InitUsersNext ==
    \/ \E us \in UsersChoices : InitializeUsers(us)
    \/ InitUsersNextUser
    \/ InitUsersDerive
    \/ InitUsersBatchInsert
    \/ InitUsersReturn
    \/ InitUsersCollaboratorError

SpecInitUsers == InitUsersInit /\ [][InitUsersNext]_vars

\* ------------------------------------------------------------------------
\* _generate_key (lines 40-85), block by block
\* ------------------------------------------------------------------------
\* the (attr, vers, metadata) arguments: with and without '|' inside
AttrInputs == { <<"a">>, <<"a", "|", "1">> }
VersInputs == {1, 2}
MetadataInputs == { <<"m">>, <<"2", "|", "m">> }

\* the docstring's limit on keylen, in blocks (lines 57-59)
MaxBlocks == 255

\* key lengths of at most two blocks: negative, zero, below, at and above
\* a multiple of the digest size
ShortKeylens == {0 - 1, 0, 1, 16, DigestSize, DigestSize + 1, 2 * DigestSize}

\* key lengths at the docstring's limit, one byte above it, and one block
\* and one byte above it
LongKeylens ==
    {MaxBlocks * DigestSize, MaxBlocks * DigestSize + 1,
     (MaxBlocks + 1) * DigestSize + 1}

\* the key lengths of a call: for the first call the short ones and, with
\* the plainest of the other arguments, the long ones; a second call is
\* made after a first call with a short key length, with a short key length
KeylenInputs(a, vers, metadata) ==
    IF gk_hist.calls = <<>>
    THEN ShortKeylens \cup
         (IF a = <<"a">> /\ vers = 1 /\ metadata = <<"m">>
          THEN LongKeylens ELSE {})
    ELSE IF gk_hist.calls[1].keylen \in ShortKeylens THEN ShortKeylens
         ELSE {}

\* what a call that ended leaves in the history
CallRecord(raised, key) ==
    [attr |-> gk.attr, vers |-> gk.vers, metadata |-> gk.metadata,
     keylen |-> gk.keylen, raised |-> raised, key_info |-> gk.key_info,
     inputs |-> gk_hist.inputs, key |-> key]

\* _generate_key(attr, vers, metadata, keylen) is called, for the first or
\* the second time
GenerateKeyCall(a, vers, metadata, keylen) ==
    /\ gk.pc \in {"idle", "returned", "raised"}
    /\ Len(gk_hist.calls) <= 1
    /\ gk' = [pc |-> "check", attr |-> a, vers |-> vers,
              metadata |-> metadata, keylen |-> keylen, num_blocks |-> 0,
              key_info |-> <<>>, key |-> <<>>, block |-> <<>>, i |-> 0]
    /\ gk_hist' = [gk_hist EXCEPT !.inputs = <<>>]
    /\ UNCHANGED <<shared, pc, locals, err, history, init_users_vars,
                   hmac_table>>

\* lines 70-71: a negative key length raises ValueError
GenerateKeyRaise ==
    /\ gk.pc = "check"
    /\ GenerateKeyRaises(gk.keylen)
    /\ gk' = [gk EXCEPT !.pc = "raised"]
    /\ gk_hist' = [gk_hist EXCEPT !.calls = Append(@, CallRecord(TRUE, <<>>))]
    /\ UNCHANGED <<shared, pc, locals, err, history, init_users_vars,
                   hmac_table>>

\* lines 72-78
GenerateKeySetup ==
    /\ gk.pc = "check"
    /\ ~GenerateKeyRaises(gk.keylen)
    /\ gk' = [gk EXCEPT !.pc = "loop",
                        !.num_blocks = NumBlocks(gk.keylen),
                        !.key_info = KeyInfoStr(gk.attr, gk.vers, gk.metadata,
                                                gk.keylen),
                        !.key = <<>>, !.block = <<>>, !.i = 0]
    /\ UNCHANGED <<shared, pc, locals, err, history, init_users_vars,
                   hmac_table, gk_hist>>

\* lines 79-84: one block of the chain
GenerateKeyBlock ==
    /\ gk.pc = "loop"
    /\ gk.i < gk.num_blocks
    /\ LET block_num == BlockNum(gk.i)
           msg == HmacMessage(gk.block, gk.key_info, block_num)
           block == HmacDigest(hmac_table, msg)
       IN  /\ hmac_table' = HmacTable(hmac_table, msg)
           /\ gk' = [gk EXCEPT !.block = block, !.key = @ \o block,
                               !.i = @ + 1]
           /\ gk_hist' = [gk_hist EXCEPT !.inputs = Append(@, msg)]
    /\ UNCHANGED <<shared, pc, locals, err, history, init_users_vars>>

\* line 85
GenerateKeyReturn ==
    /\ gk.pc = "loop"
    /\ gk.i = gk.num_blocks
    /\ gk' = [gk EXCEPT !.pc = "returned"]
    /\ gk_hist' = [gk_hist EXCEPT
                      !.calls = Append(@, CallRecord(FALSE,
                                                     Slice(gk.key, gk.keylen)))]
    /\ UNCHANGED <<shared, pc, locals, err, history, init_users_vars,
                   hmac_table>>

GenerateKeyNext ==
    \/ \E a \in AttrInputs, vers \in VersInputs, metadata \in MetadataInputs :
          \E keylen \in KeylenInputs(a, vers, metadata) :
              GenerateKeyCall(a, vers, metadata, keylen)
    \/ GenerateKeyRaise
    \/ GenerateKeySetup
    \/ GenerateKeyBlock
    \/ GenerateKeyReturn

SpecGenerateKey == Init /\ [][GenerateKeyNext]_vars

\* ------------------------------------------------------------------------
\* Properties of revoke
\* ------------------------------------------------------------------------
\* revoke has returned normally
Returned(p) == pc[p] = "returned"

\* the revoked user was among the attribute's users when revoke was entered
HeldAtEntry(p) == userid[p] \in pre[p].aum[attr[p]]

\* key store and maps are what they were when revoke was entered
SharedAsAtEntry(p) ==
    /\ keystore = pre[p].ks
    /\ attr_user_map = pre[p].aum
    /\ user_attr_map = pre[p].uam

\* metadatas a user held for the revoked attribute when revoke was entered
PreMetas(p, u) == GetMetadatas(pre[p].ks, u, attr[p])

\* latest record of a user for (revoked attribute, m) when revoke was entered
PreLatest(p, u, m) == RetrieveLatestVersion(pre[p].ks, u, m, attr[p])

\* the records this revoke inserted for user r and metadata m
InsertedFor(p, r, m) ==
    {e \in BagToSet(inserted[p]) : e.user = r /\ e.info.metadata = m}

RECURSIVE SumCopies(_, _)
SumCopies(S, B) ==
    IF S = {} THEN 0
    ELSE LET e == CHOOSE x \in S : TRUE
         IN  CopiesIn(e, B) + SumCopies(S \ {e}, B)

\* how many records this revoke inserted for user r and metadata m
InsertCount(p, r, m) == SumCopies(InsertedFor(p, r, m), inserted[p])

\* the remaining users and metadatas that revoke re-issues a key for
Redistributed(p, r, m) ==
    /\ r \in pre[p].aum[attr[p]] \ {userid[p]}
    /\ m \in PreMetas(p, userid[p]) \cap PreMetas(p, r)

\* C1: after revoke(u, a) returns normally for a user u that held a, the key
\* store has no record of u for a, under any metadata and version, and u is
\* not among the users of a.
C1_RevokedUserPurged ==
    \A p \in Procs :
        (Returned(p) /\ HeldAtEntry(p)) =>
            /\ UserAttrRecords(keystore, userid[p], attr[p]) = {}
            /\ userid[p] \notin attr_user_map[attr[p]]

\* C1 witness: a revoke returned for a user that held the attribute under
\* two metadatas
C1_Witness ==
    \E p \in Procs :
        /\ Returned(p) /\ HeldAtEntry(p)
        /\ Cardinality(PreMetas(p, userid[p])) = 2

\* C2: every record revoke inserts for a remaining user r and a metadata m
\* shared with the revoked user u carries u's latest version for (a, m)
\* before the call plus one, each metadata on its own.
C2_VersionPerMetadata ==
    \A p \in Procs :
        (Returned(p) /\ HeldAtEntry(p)) =>
            \A r \in Users, m \in Metas :
                Redistributed(p, r, m) =>
                    \A e \in InsertedFor(p, r, m) :
                        e.info.vers = PreLatest(p, userid[p], m).vers + 1

\* C3: whenever no revoke / revoke_all_attrs call is in progress, a user is
\* among the users of an attribute iff the attribute is among the user's
\* attributes, also after calls that ended with a collaborator error.
C3_IndexMirror ==
    (\A p \in Procs : Resting(p)) =>
        \A u \in Users, a \in Attrs :
            u \in attr_user_map[a] <=> a \in user_attr_map[u]

\* C4: revoke(u, a) for a user u that is not among the users of a returns
\* and leaves key store and both maps as they were, and inserts nothing,
\* even if the key store holds records of u for a.
C4_NoOpRevoke ==
    \A p \in Procs :
        (Returned(p) /\ ~HeldAtEntry(p)) =>
            SharedAsAtEntry(p) /\ inserted[p] = EmptyBag

\* C4 witness: a no-op revoke returned while the key store holds records of
\* the user for the attribute
C4_Witness ==
    \E p \in Procs :
        /\ Returned(p) /\ ~HeldAtEntry(p)
        /\ UserAttrRecords(keystore, userid[p], attr[p]) # {}

\* C5: revoke inserts exactly one record for (r, m) when r is another user
\* of the attribute at entry and m is held for it by both the revoked user
\* and r before the call, and no record for any other (r, m).
C5_RedistributionSet ==
    \A p \in Procs :
        (Returned(p) /\ HeldAtEntry(p)) =>
            \A r \in Users, m \in Metas :
                InsertCount(p, r, m) = IF Redistributed(p, r, m) THEN 1 ELSE 0

\* C5 witness: a revoke returned that re-issued keys to a remaining user and
\* passed over a metadata that another remaining user never held
C5_Witness ==
    \E p \in Procs :
        /\ Returned(p) /\ HeldAtEntry(p)
        /\ \E r \in Users, m \in Metas : InsertCount(p, r, m) = 1
        /\ \E r \in pre[p].aum[attr[p]] \ {userid[p]}, m \in Metas :
              /\ m \in PreMetas(p, userid[p]) \ PreMetas(p, r)
              /\ InsertCount(p, r, m) = 0

\* C6: every record revoke inserts for (r, a, m) has a version greater than
\* every version stored for (r, a, m) before the call.
C6_VersionsGrow ==
    \A p \in Procs :
        Returned(p) =>
            \A e \in BagToSet(inserted[p]) :
                \A v \in StoredVersions(pre[p].ks, e.user, e.info.metadata,
                                        attr[p]) :
                    e.info.vers > v

\* the key length revoke is to give the new key of metadata m
ExpectedKeylen(p, m) ==
    IF m \in DOMAIN metas_keylens[p]
    THEN metas_keylens[p][m]
    ELSE PreLatest(p, userid[p], m).keylen

\* C7: for every rotated metadata m, the derived key and the keylen field
\* of every record inserted for m have length metas_keylens[m] when m is
\* overridden, else the length of the revoked user's latest record for m.
C7_KeylenPerMetadata ==
    \A p \in Procs :
        (Returned(p) /\ HeldAtEntry(p)) =>
            \A e \in BagToSet(inserted[p]) :
                /\ e.info.keywrap.sk.len = ExpectedKeylen(p, e.info.metadata)
                /\ e.info.keylen = ExpectedKeylen(p, e.info.metadata)

\* C9: a revoke(u, a) that repeats a revoke(u, a) that returned normally is
\* stopped by the membership check: it returns at once, and key store and
\* both maps stay as the first call left them.
C9_RevokeIdempotent ==
    \A p \in Procs :
        pre[p].repeat =>
            /\ Returned(p)
            /\ SharedAsAtEntry(p)
            /\ inserted[p] = EmptyBag

\* C9 witness: the repeated call follows a revoke that took the attribute
\* from a user holding it since the start, and rotated its keys
C9_Witness ==
    \E p \in Procs :
        /\ pre[p].repeat /\ Returned(p)
        /\ Grant[userid[p]][attr[p]] # {}
        /\ UserAttrRecords(keystore, userid[p], attr[p]) = {}
        /\ \E r \in Users \ {userid[p]}, m \in Metas :
              \E v \in StoredVersions(keystore, r, m, attr[p]) :
                  v > InitVers(attr[p], m)

\* C10: when revoke raises the length error of _generate_key, nothing was
\* changed: key store and both maps are as they were at entry.
C10_FailFast ==
    \A p \in Procs :
        (pc[p] = "raised" /\ err[p] = "ValueError") => SharedAsAtEntry(p)

\* ------------------------------------------------------------------------
\* Properties of revoke_all_attrs
\* ------------------------------------------------------------------------
\* key store and maps as one value
Shared(ks, aum, uam) == [ks |-> ks, aum |-> aum, uam |-> uam]

\* lines 225-254 as one function: what a revoke(u, a, ..., mk) that passes
\* the membership check and returns leaves behind, when `last` is the
\* metadata the loop of line 234 visits last
RevokeEffect(S, u, a, mk, last) ==
    LET ms == GetMetadatas(S.ks, u, a)
        cur(m) == RetrieveLatestVersion(S.ks, u, m, a)
        key(m) == GenerateKey(a, NewVers(cur(m)), m, NewKeylen(m, mk, cur(m)))
        purged == {r \in S.ks : ~(r.user = u /\ r.info.attr = a)}
        fresh == {[user |-> r,
                   info |-> KeyInfo(a, NewVers(cur(last)), m,
                                    WrapKey(key(m), UserPk(r)),
                                    NewKeylen(last, mk, cur(last)))] :
                    <<r, m>> \in {x \in OtherUsers(S.aum[a], u) \X ms :
                                     x[2] \in GetMetadatas(S.ks, x[1], a)}}
        replaced == {r \in purged :
                        \E f \in fresh : /\ f.user = r.user
                                         /\ f.info.attr = r.info.attr
                                         /\ f.info.metadata = r.info.metadata
                                         /\ f.info.vers = r.info.vers}
    IN  Shared((purged \ replaced) \cup fresh,
               DeleteUser(S.aum, a, u), DeleteAttr(S.uam, u, a))

\* lines 220-254 as one function: the states a revoke(u, a, ..., mk) that
\* returns normally can leave behind (none when _generate_key raises)
RevokeEffects(S, u, a, mk) ==
    LET ms == GetMetadatas(S.ks, u, a) IN
    IF ~Held(UsersByAttribute(S.aum, a), u) THEN {S}
    ELSE IF ms = {}
         THEN {Shared(S.ks, DeleteUser(S.aum, a, u), DeleteAttr(S.uam, u, a))}
         ELSE IF \E m \in ms : GenerateKeyRaises(
                      NewKeylen(m, mk, RetrieveLatestVersion(S.ks, u, m, a)))
              THEN {}
              ELSE {RevokeEffect(S, u, a, mk, last) : last \in ms}

\* the states that one revoke(u, a, ..., mk) after the other, for each a of
\* as in any order, can leave behind, starting in a state of Ss
RECURSIVE RevokeSequence(_, _, _, _)
RevokeSequence(Ss, u, as, mk) ==
    IF as = {} THEN Ss
    ELSE UNION { RevokeSequence(UNION {RevokeEffects(S, u, a, mk) : S \in Ss},
                                u, as \ {a}, mk) : a \in as }

\* revoke_all_attrs has returned normally
AllReturned(p) == pc[p] = "all_returned"

\* the attributes the user held when revoke_all_attrs was entered
AttrsAtEntry(p) == AttributesByUser(pre_all[p].uam, userid[p])

\* the end state of revoke_all_attrs is an end state of one revoke after the
\* other for each attribute the user held at entry
EndsAsRevokeSequence(p) ==
    Shared(keystore, attr_user_map, user_attr_map) \in
        RevokeSequence({Shared(pre_all[p].ks, pre_all[p].aum, pre_all[p].uam)},
                       userid[p], AttrsAtEntry(p), metas_keylens[p])

\* C8: when revoke_all_attrs(u) returns, the key store and both maps are what
\* one revoke(u, a) after the other leaves for each attribute a that u held
\* at entry, and u holds none of those attributes.
C8_RevokeAllIsSequence ==
    \A p \in Procs :
        AllReturned(p) =>
            /\ EndsAsRevokeSequence(p)
            /\ user_attr_map[userid[p]] \cap AttrsAtEntry(p) = {}

\* ------------------------------------------------------------------------
\* Properties of a revoke that a collaborator error ended
\* ------------------------------------------------------------------------
\* revoke was left by a collaborator error raised in the loop of line 247
RaisedInRedistribution(p) ==
    /\ pc[p] = "raised"
    /\ err[p] = "collaborator, re-distribution"

\* C13: when a collaborator call of the re-distribution loop raises, revoke
\* ends with that exception, nothing is retried and nothing is rolled back:
\* every record inserted before the error is in the key store, inserted
\* once, the revoked user is out of both maps and its records stay purged.
C13_PartialFailureKept ==
    \A p \in Procs :
        RaisedInRedistribution(p) =>
            /\ \A e \in BagToSet(inserted[p]) :
                  e \in keystore /\ CopiesIn(e, inserted[p]) = 1
            /\ userid[p] \notin attr_user_map[attr[p]]
            /\ attr[p] \notin user_attr_map[userid[p]]
            /\ UserAttrRecords(keystore, userid[p], attr[p]) = {}

\* C13 witness: the error came after a remaining user was served and before
\* another one was
C13_Witness ==
    \E p \in Procs :
        /\ RaisedInRedistribution(p)
        /\ \E r \in Users, m \in Metas :
              Redistributed(p, r, m) /\ InsertCount(p, r, m) = 1
        /\ \E r \in Users, m \in Metas :
              Redistributed(p, r, m) /\ InsertCount(p, r, m) = 0

\* the version the failed call was to give metadata m: one more than the
\* latest version the revoked user held when that call was entered
RetriedVersion(p, m) ==
    RetrieveLatestVersion(pre[p].first, userid[p], m, attr[p]).vers + 1

OnlyPairRemoved(p) ==
    /\ attr_user_map =
           [pre[p].aum EXCEPT ![attr[p]] = @ \ {userid[p]}]
    /\ user_attr_map =
           [pre[p].uam EXCEPT ![userid[p]] = @ \ {attr[p]}]

\* the records of the other attributes are those of entry
OtherAttrsKept(p) ==
    {r \in keystore : r.info.attr # attr[p]}
        = {r \in pre[p].ks : r.info.attr # attr[p]}

\* every record the other users had at entry is still stored, as it was
OtherUsersRecordsKept(p) ==
    \A r \in pre[p].ks : r.user # userid[p] => r \in keystore

ReturnedOutside ==
    \A p \in Procs : Returned(p) => userid[p] \notin attr_user_map[attr[p]]

\* no step adds a user to an attribute: there is no grant
UsersOnlyLeave ==
    \A a \in Attrs : attr_user_map'[a] \subseteq attr_user_map[a]

\* no step stores a record of attribute a for a user outside the users of a
InsertOnlyForUsers ==
    \A u \in Users, a \in Attrs :
        u \notin attr_user_map[a] =>
            UserAttrRecords(keystore', u, a)
                \subseteq UserAttrRecords(keystore, u, a)

\* C20: in a sequence of revoke and revoke_all_attrs calls, one at a time
\* and with no grant, once revoke(u, a) has returned no later call inserts
\* a record for (u, a): the returned call leaves u outside the users of a,
\* no later step puts it back, and records are inserted only for users of a.
C20_RevokedStayExcluded ==
    /\ []ReturnedOutside
    /\ [][UsersOnlyLeave /\ InsertOnlyForUsers]_vars

\* C20 witness: no call raised, and a later revoke on the same attribute has
\* re-issued keys while the user revoked before it stays without any record
C20_Witness ==
    \E p \in Procs, u \in Users :
        /\ Returned(p) /\ ncalls = 2 /\ nerrors = 0
        /\ inserted[p] # EmptyBag
        /\ u # userid[p]
        /\ Grant[u][attr[p]] # {}
        /\ u \notin attr_user_map[attr[p]]
        /\ UserAttrRecords(keystore, u, attr[p]) = {}

\* ------------------------------------------------------------------------
\* Properties of two revokes running together
\* ------------------------------------------------------------------------
\* both callers' revokes have returned normally
BothReturned == \A p \in Procs : Returned(p)

\* the states that revoke as p called it and then revoke as q called it
\* leave behind, one after the other, from the state at start
OneAfterTheOther(p, q) ==
    UNION { RevokeEffects(S, userid[q], attr[q], metas_keylens[q]) :
              S \in RevokeEffects(Shared(InitKeystore, InitAttrUserMap,
                                         InitUserAttrMap),
                                  userid[p], attr[p], metas_keylens[p]) }

\* C11: for two attributes a1 # a2, however the collaborator calls of
\* revoke(u1, a1) and revoke(u2, a2) interleave, key store and maps end as
\* the two calls leave them when run one after the other, in either order.
C11_DisjointAttrsCommute ==
    (BothReturned /\ attr["p1"] # attr["p2"]) =>
        /\ Shared(keystore, attr_user_map, user_attr_map)
               \in OneAfterTheOther("p1", "p2")
        /\ Shared(keystore, attr_user_map, user_attr_map)
               \in OneAfterTheOther("p2", "p1")

\* C11 witness: the two calls revoked one user and both re-issued keys; the
\* second caller entered after the first had deleted from the maps and
\* before it had touched the key store
C11_Witness ==
    /\ BothReturned /\ attr["p1"] # attr["p2"]
    /\ userid["p1"] = userid["p2"]
    /\ \A p \in Procs : inserted[p] # EmptyBag
    /\ \E p \in Procs : /\ pre[p].aum # InitAttrUserMap
                        /\ pre[p].ks = InitKeystore

\* both callers revoked one attribute, from different users, and returned
SameAttrBothReturned ==
    /\ BothReturned
    /\ attr["p1"] = attr["p2"]
    /\ userid["p1"] # userid["p2"]

\* key store and maps are as one of the two sequential orders leaves them,
\* and neither revoked user has a record of the attribute
Serialized ==
    /\ Shared(keystore, attr_user_map, user_attr_map)
           \in OneAfterTheOther("p1", "p2") \cup OneAfterTheOther("p2", "p1")
    /\ \A p \in Procs : UserAttrRecords(keystore, userid[p], attr[p]) = {}

\* neither call was entered while the other caller was inside a call on
\* the same attribute
OneAtATimePerAttr == \A p \in Procs : pre[p].alone

\* C12: with calls on the same (user, attribute) pair excluding each other
\* and nothing else serialized, concurrent revoke(u1, a) and revoke(u2, a),
\* u1 # u2, end as one of the two sequential orders does, and neither
\* revoked user keeps a record of a.
C12_SameAttrSerializable == SameAttrBothReturned => Serialized

\* C12 amended: the same, when calls on the same attribute exclude each
\* other.
C12_SameAttrSerializableOneAtATime ==
    (SameAttrBothReturned /\ OneAtATimePerAttr) => Serialized

\* C12 witness: the two revokes on one attribute ran one after the other and
\* both re-issued keys to the user left
C12_Witness ==
    /\ SameAttrBothReturned /\ OneAtATimePerAttr
    /\ \A p \in Procs : inserted[p] # EmptyBag

\* ------------------------------------------------------------------------
\* Properties of initialize_users
\* ------------------------------------------------------------------------
\* the record that one descriptor of user u asks for
RequestedRecord(u, d) ==
    [user |-> u,
     info |-> KeyInfo(d.attr, d.vers, d.metadata,
                      WrapKey(GenerateKey(d.attr, d.vers, d.metadata, d.keylen),
                              iu.users[u].RSA_pk),
                      d.keylen)]

\* one record for each descriptor of user u
FullRecordSet(u) ==
    {RequestedRecord(u, iu.users[u].info[k]) :
        k \in 1..Len(iu.users[u].info)}

\* the batch_insert calls made for user u
BatchesOf(u) == {k \in 1..Len(batches) : batches[k].user = u}

\* C15: initialize_users stores each user's records with exactly one
\* batch_insert, of one record per descriptor, made after all of that
\* user's keys are derived and wrapped; when a wrap or the store raises
\* the user at hand has no record at all, the users before it keep their
\* full sets, and neither map is written.
C15_InitUsersPerUserAtomic ==
    iu.pc # "idle" =>
        /\ \A u \in DOMAIN iu.users :
              /\ Cardinality(BatchesOf(u)) <= 1
              /\ \A k \in BatchesOf(u) :
                    /\ Len(batches[k].keywraps) = Len(iu.users[u].info)
                    /\ {[user |-> u, info |-> batches[k].keywraps[j]] :
                           j \in 1..Len(batches[k].keywraps)}
                           = FullRecordSet(u)
              /\ {r \in keystore : r.user = u}
                    = (IF BatchesOf(u) = {} THEN {} ELSE FullRecordSet(u))
        /\ iu.pc = "returned" =>
              \A u \in DOMAIN iu.users : Cardinality(BatchesOf(u)) = 1
        /\ iu.pc = "raised" =>
              /\ BatchesOf(iu.userid) = {}
              /\ \A u \in DOMAIN iu.users \ (iu.left \cup {iu.userid}) :
                    Cardinality(BatchesOf(u)) = 1
        /\ attr_user_map = InitAttrUserMap
        /\ user_attr_map = InitUserAttrMap

\* C15 witness: a collaborator raised after a first key of the user at hand
\* was wrapped and before its last one was, and a user before it has
\* several records stored
C15_Witness ==
    /\ iu.pc = "raised" /\ iu.err = "collaborator"
    /\ iu.keywraps # <<>>
    /\ iu.info # <<>>
    /\ \E u \in DOMAIN iu.users :
          /\ BatchesOf(u) # {}
          /\ Cardinality({r \in keystore : r.user = u}) > 1

\* ------------------------------------------------------------------------
\* Properties of _generate_key
\* ------------------------------------------------------------------------
\* the calls of _generate_key that have ended
EndedCalls == {gk_hist.calls[k] : k \in 1..Len(gk_hist.calls)}

\* the least number of blocks of DigestSize bytes that hold n bytes
CeilBlocks(n) ==
    CHOOSE q \in 0..n : q * DigestSize >= n /\ (q - 1) * DigestSize < n

\* the counter byte that ends the message of block k of a call
CounterByte(c, k) == c.inputs[k][Len(c.inputs[k])][2]

\* the key length is within the docstring's limit (lines 57-59)
InRange(keylen) == keylen >= 0 /\ keylen <= MaxBlocks * DigestSize

\* C16: _generate_key raises for every negative length, with no block
\* derived; length 0 gives the empty key; every length in range runs
\* exactly ceil(length / digest size) HMAC blocks, numbered 1..n, and
\* returns exactly length bytes.
C16_LengthContract ==
    \A c \in EndedCalls :
        /\ c.keylen < 0 => c.raised /\ c.inputs = <<>>
        /\ c.keylen = 0 => ~c.raised /\ c.key = <<>>
        /\ InRange(c.keylen) =>
              /\ ~c.raised
              /\ Len(c.inputs) = CeilBlocks(c.keylen)
              /\ \A k \in 1..Len(c.inputs) : CounterByte(c, k) = k
              /\ Len(c.key) = c.keylen

\* C16 witness: one call raised for a negative length, another returned a
\* key of two blocks whose length is no multiple of the digest size
C16_Witness ==
    /\ \E c \in EndedCalls : c.keylen < 0 /\ c.raised
    /\ \E c \in EndedCalls :
          /\ ~c.raised
          /\ c.keylen % DigestSize # 0
          /\ Len(c.inputs) = 2
          /\ Len(c.key) = c.keylen

\* C17: a length above 255 times the digest size is rejected and no key is
\* produced, so the one-byte block counter never wraps around: the counter
\* byte of block k is k, and no two blocks of one call have the same
\* counter byte.
C17_OverRangeRejected ==
    \A c \in EndedCalls :
        /\ c.keylen > MaxBlocks * DigestSize => c.raised /\ c.inputs = <<>>
        /\ \A k \in 1..Len(c.inputs) : CounterByte(c, k) = k
        /\ \A j, k \in 1..Len(c.inputs) :
              j # k => CounterByte(c, j) # CounterByte(c, k)

\* the string has no '|'
DelimiterFree(str) == \A k \in 1..Len(str) : str[k] # "|"

\* the (attr, vers, metadata, keylen) of a call
ArgsOf(c) == <<c.attr, c.vers, c.metadata, c.keylen>>

\* key c is the first bytes of key d
Truncation(c, d) ==
    /\ Len(c.key) <= Len(d.key)
    /\ c.key = SubSeq(d.key, 1, Len(c.key))

\* two calls that returned, with one (attr, vers, metadata) and two lengths
SameKeyTwoLengths(c, d) ==
    /\ ~c.raised /\ ~d.raised
    /\ <<c.attr, c.vers, c.metadata>> = <<d.attr, d.vers, d.metadata>>
    /\ c.keylen # d.keylen

====
